---- MODULE Spec2Model ----
(***************************************************************************)
(* genltest: a Generic Netlink example.  The kernel module (ks/genltest.c) *)
(* registers family "genltest" with one command (ECHO), one attribute      *)
(* (MSG) and one multicast group, answers ECHO requests with a fixed       *)
(* string and multicasts whatever is written to its sysfs "ping" file.     *)
(* The libnl client (us/genltest.c) opens two sockets, resolves the        *)
(* family and group, sends one ECHO request and then listens forever.      *)
(***************************************************************************)
EXTENDS Integers, Sequences, FiniteSets, TLC

\* ------------------------------------------------------------------------
\* Program constants
\* ------------------------------------------------------------------------
MSG_MAX_LEN == 1024
GENLTEST_A_MSG == 1
GENLTEST_A_MAX == 1
GENLTEST_CMD_ECHO == 1
GENLTEST_CMD_MAX == 1
GENLTEST_GENL_VERSION == 1

\* errno values the module returns (negated at the point of use)
ENOMEM == 12
EMSGSIZE == 90
ESRCH == 3
ENOBUFS == 105
EEXIST == 17
ECONNREFUSED == 111
EINVAL == 22
EOPNOTSUPP == 95
ENOENT == 2

\* libnl error codes the client sees (negated at the point of use)
NLE_NOMEM == 5
NLE_OBJ_NOTFOUND == 12

\* ------------------------------------------------------------------------
\* Bounds of the model
\* ------------------------------------------------------------------------
MaxWrite == 2000     \* longest buffer written to the sysfs file
MaxQueue == 1        \* notifications a socket's receive queue holds

\* ------------------------------------------------------------------------
\* Byte buffers.  A buffer is kept as its runs of equal bytes, first run
\* first: << [b |-> 104, n |-> 1], [b |-> 108, n |-> 2] >> is "hll".  No
\* run is empty and neighbouring runs differ, so equal buffers are equal
\* values.
\* ------------------------------------------------------------------------
Run(b, n) == [b |-> b, n |-> n]

\* one more byte at the end
AppendByte(buf, b) ==
  IF buf # <<>> /\ buf[Len(buf)].b = b
  THEN [buf EXCEPT ![Len(buf)].n = @ + 1]
  ELSE Append(buf, Run(b, 1))

\* the buffer holding the bytes of a sequence
Bytes(seq) ==
  LET f[i \in 0..Len(seq)] ==
        IF i = 0 THEN <<>> ELSE AppendByte(f[i - 1], seq[i])
  IN f[Len(seq)]

\* the number of bytes in the first i runs, for every i
Upto(buf) ==
  LET f[i \in 0..Len(buf)] == IF i = 0 THEN 0 ELSE f[i - 1] + buf[i].n
  IN f

\* the number of bytes
BufLen(buf) == Upto(buf)[Len(buf)]

\* the first k bytes (memcpy of k bytes)
Take(buf, k) ==
  LET upto == Upto(buf)
      whole == Cardinality({ i \in 1..Len(buf) : upto[i] <= k })
      rest == k - upto[whole]
  IN IF whole < Len(buf) /\ rest > 0
     THEN Append(SubSeq(buf, 1, whole), Run(buf[whole + 1].b, rest))
     ELSE SubSeq(buf, 1, whole)

HasNul(buf) == \E i \in 1..Len(buf) : buf[i].b = 0

\* the first run of NUL bytes
FirstNul(buf) ==
  CHOOSE i \in 1..Len(buf) :
    buf[i].b = 0 /\ \A j \in 1..(i - 1) : buf[j].b # 0

\* strlen(): the number of bytes before the first NUL.  The buffers it is
\* applied to always hold a NUL.
strlen(buf) == Upto(buf)[FirstNul(buf) - 1]

\* The C string a NUL-terminated payload holds (printf "%s", nla_get_string)
CStr(data) == Take(data, strlen(data))

\* "Hello from Kernel Space, Netlink!"
HelloKernel ==
  Bytes(<< 72, 101, 108, 108, 111, 32, 102, 114, 111, 109, 32, 75, 101, 114,
           110, 101, 108, 32, 83, 112, 97, 99, 101, 44, 32, 78, 101, 116,
           108, 105, 110, 107, 33 >>)

\* "Hello from User Space, Netlink!"
HelloUser ==
  Bytes(<< 72, 101, 108, 108, 111, 32, 102, 114, 111, 109, 32, 85, 115, 101,
           114, 32, 83, 112, 97, 99, 101, 44, 32, 78, 101, 116, 108, 105,
           110, 107, 33 >>)

\* ------------------------------------------------------------------------
\* Netlink messages and attributes
\* ------------------------------------------------------------------------
KernelPort == 0

\* one attribute record: id and payload bytes
Attr(id, data) == [id |-> id, data |-> data]

\* a message on the wire: a genl message, or an NLMSG_ERROR (ack when
\* error = 0)
GenlMsg(portid, seq, family, cmd, attrs) ==
  [type |-> "genl", portid |-> portid, seq |-> seq, family |-> family,
   cmd |-> cmd, attrs |-> attrs, error |-> 0]

ErrMsg(portid, seq, error) ==
  [type |-> "error", portid |-> portid, seq |-> seq, family |-> 0,
   cmd |-> 0, attrs |-> <<>>, error |-> error]

\* nla_parse(): tb[id] is the last attribute with that id, if any;
\* ids above maxtype are skipped
AttrIdx(attrs, id) == { i \in 1..Len(attrs) : attrs[i].id = id }

nla_parse(attrs, id) ==
  IF AttrIdx(attrs, id) = {}
  THEN [present |-> FALSE, data |-> <<>>]
  ELSE [present |-> TRUE,
        data |-> attrs[CHOOSE i \in AttrIdx(attrs, id) :
                          \A j \in AttrIdx(attrs, id) : j <= i].data]

\* ------------------------------------------------------------------------
\* Kernel socket buffers (struct sk_buff as the handlers use it)
\* ------------------------------------------------------------------------
NoSkb ==
  [allocd |-> FALSE, live |-> FALSE, hdr |-> FALSE, ended |-> FALSE,
   portid |-> 0, seq |-> 0, family |-> 0, cmd |-> 0, attrs |-> <<>>,
   cancels |-> 0, frees |-> 0, sends |-> 0]

\* nlmsg_new() / genlmsg_new() that succeeded
nlmsg_new == [NoSkb EXCEPT !.allocd = TRUE, !.live = TRUE]

genlmsg_put(skb, portid, seq, family, cmd) ==
  [skb EXCEPT !.hdr = TRUE, !.portid = portid, !.seq = seq,
              !.family = family, !.cmd = cmd]

\* nla_put_string(): the bytes of the C string and its terminating NUL
nla_put_string(skb, id, str) ==
  [skb EXCEPT !.attrs = Append(@, Attr(id, Take(str, strlen(str) + 1)))]

\* genlmsg_cancel(): trims the message back to before its header
genlmsg_cancel(skb) ==
  [skb EXCEPT !.hdr = FALSE, !.attrs = <<>>, !.cancels = @ + 1]

genlmsg_end(skb) == [skb EXCEPT !.ended = TRUE]

nlmsg_free(skb) == [skb EXCEPT !.live = FALSE, !.frees = @ + 1]

\* the transport takes the buffer over (and releases it itself, delivered or not)
Consume(skb) == [skb EXCEPT !.live = FALSE, !.sends = @ + 1]

WireOf(skb) == GenlMsg(skb.portid, skb.seq, skb.family, skb.cmd, skb.attrs)

\* what a handler leaves behind: its return value, its buffer, the ports
\* the buffer was delivered to and whether it went out as a multicast
HandlerResult(ret, skb, to, mcast) ==
  [ret |-> ret, skb |-> skb, to |-> to, mcast |-> mcast]

\* genlmsg_reply(): unicast to info->snd_portid; bound is the set of ports
\* that have an open socket, ok is whether the receive queue takes it
genlmsg_reply(skb, info, bound, ok) ==
  IF info.snd_portid \notin bound
  THEN HandlerResult(-ECONNREFUSED, Consume(skb), {}, FALSE)
  ELSE IF ~ok
  THEN HandlerResult(-ENOBUFS, Consume(skb), {}, FALSE)
  ELSE HandlerResult(0, Consume(skb), {info.snd_portid}, FALSE)

\* genlmsg_multicast(): subs are the ports that are members of the group,
\* room those among them whose receive queue has room; ok is whether the
\* transport could clone the buffer for them
genlmsg_multicast(skb, subs, room, ok) ==
  IF subs # {} /\ ~ok
  THEN HandlerResult(-ENOBUFS, Consume(skb), {}, TRUE)
  ELSE IF subs \cap room = {}
  THEN HandlerResult(-ESRCH, Consume(skb), {}, TRUE)
  ELSE HandlerResult(0, Consume(skb), subs \cap room, TRUE)

\* ------------------------------------------------------------------------
\* Handlers of the kernel module
\* ------------------------------------------------------------------------
\* e: what the environment does to this call
\*   e.alloc  nlmsg_new() succeeds       e.hdr  genlmsg_put() succeeds
\*   e.attr   nla_put_string() succeeds  e.send the transport takes it
\* echo_doit without the nlmsg_free() after genlmsg_cancel()
echo_doit_leak(info, family, bound, e) ==
  IF ~e.alloc
  THEN HandlerResult(-ENOMEM, NoSkb, {}, FALSE)
  ELSE IF ~e.hdr
  THEN HandlerResult(-EMSGSIZE, nlmsg_free(nlmsg_new), {}, FALSE)
  ELSE LET msg == genlmsg_put(nlmsg_new, info.snd_portid, info.snd_seq,
                              family, GENLTEST_CMD_ECHO)
       IN IF ~e.attr
          THEN HandlerResult(-EMSGSIZE, genlmsg_cancel(msg), {}, FALSE)
          ELSE genlmsg_reply(
                 genlmsg_end(nla_put_string(msg, GENLTEST_A_MSG,
                                            AppendByte(HelloKernel, 0))),
                 info, bound, e.send)

\* echo_doit with the header echo_ping builds: port 0, sequence number 0
echo_doit_anon(info, family, bound, e) ==
  IF ~e.alloc
  THEN HandlerResult(-ENOMEM, NoSkb, {}, FALSE)
  ELSE IF ~e.hdr
  THEN HandlerResult(-EMSGSIZE, nlmsg_free(nlmsg_new), {}, FALSE)
  ELSE LET msg == genlmsg_put(nlmsg_new, 0, 0, family, GENLTEST_CMD_ECHO)
       IN IF ~e.attr
          THEN HandlerResult(-EMSGSIZE, nlmsg_free(genlmsg_cancel(msg)),
                             {}, FALSE)
          ELSE genlmsg_reply(
                 genlmsg_end(nla_put_string(msg, GENLTEST_A_MSG,
                                            AppendByte(HelloKernel, 0))),
                 info, bound, e.send)

\* echo_doit sending back the MSG it received, when there is one
echo_doit_mirror(info, family, bound, e) ==
  IF ~e.alloc
  THEN HandlerResult(-ENOMEM, NoSkb, {}, FALSE)
  ELSE IF ~e.hdr
  THEN HandlerResult(-EMSGSIZE, nlmsg_free(nlmsg_new), {}, FALSE)
  ELSE LET msg == genlmsg_put(nlmsg_new, info.snd_portid, info.snd_seq,
                              family, GENLTEST_CMD_ECHO)
           tb == nla_parse(info.attrs, GENLTEST_A_MSG)
       IN IF ~e.attr
          THEN HandlerResult(-EMSGSIZE, nlmsg_free(genlmsg_cancel(msg)),
                             {}, FALSE)
          ELSE genlmsg_reply(
                 genlmsg_end(nla_put_string(msg, GENLTEST_A_MSG,
                                            IF tb.present THEN tb.data
                                            ELSE AppendByte(HelloKernel, 0))),
                 info, bound, e.send)

\* echo_doit rejecting a request that carries no MSG
echo_doit_strict(info, family, bound, e) ==
  IF ~nla_parse(info.attrs, GENLTEST_A_MSG).present
  THEN HandlerResult(-EINVAL, NoSkb, {}, FALSE)
  ELSE IF ~e.alloc
  THEN HandlerResult(-ENOMEM, NoSkb, {}, FALSE)
  ELSE IF ~e.hdr
  THEN HandlerResult(-EMSGSIZE, nlmsg_free(nlmsg_new), {}, FALSE)
  ELSE LET msg == genlmsg_put(nlmsg_new, info.snd_portid, info.snd_seq,
                              family, GENLTEST_CMD_ECHO)
       IN IF ~e.attr
          THEN HandlerResult(-EMSGSIZE, nlmsg_free(genlmsg_cancel(msg)),
                             {}, FALSE)
          ELSE genlmsg_reply(
                 genlmsg_end(nla_put_string(msg, GENLTEST_A_MSG,
                                            AppendByte(HelloKernel, 0))),
                 info, bound, e.send)

echo_doit(info, family, bound, e) ==
  IF ~e.alloc
  THEN HandlerResult(-ENOMEM, NoSkb, {}, FALSE)
  ELSE IF ~e.hdr
  THEN HandlerResult(-EMSGSIZE, nlmsg_free(nlmsg_new), {}, FALSE)
  ELSE LET msg == genlmsg_put(nlmsg_new, info.snd_portid, info.snd_seq,
                              family, GENLTEST_CMD_ECHO)
       IN IF ~e.attr
          THEN HandlerResult(-EMSGSIZE, nlmsg_free(genlmsg_cancel(msg)),
                             {}, FALSE)
          ELSE genlmsg_reply(
                 genlmsg_end(nla_put_string(msg, GENLTEST_A_MSG,
                                            AppendByte(HelloKernel, 0))),
                 info, bound, e.send)

\* echo_ping reporting "nobody was listening" as success
echo_ping_quiet(buf, cnt, family, subs, room, e) ==
  IF ~e.alloc
  THEN HandlerResult(-ENOMEM, NoSkb, {}, FALSE)
  ELSE IF ~e.hdr
  THEN HandlerResult(-ENOMEM, nlmsg_free(nlmsg_new), {}, FALSE)
  ELSE LET skb == genlmsg_put(nlmsg_new, 0, 0, family, GENLTEST_CMD_ECHO)
       IN IF ~e.attr
          THEN HandlerResult(-EMSGSIZE, nlmsg_free(genlmsg_cancel(skb)),
                             {}, FALSE)
          ELSE LET r == genlmsg_multicast(
                          genlmsg_end(nla_put_string(skb, GENLTEST_A_MSG,
                                                     buf)),
                          subs, room, e.send)
               IN IF r.ret = -ESRCH THEN [r EXCEPT !.ret = 0] ELSE r

\* cnt is not used by the body: nla_put_string() measures buf itself
echo_ping(buf, cnt, family, subs, room, e) ==
  IF ~e.alloc
  THEN HandlerResult(-ENOMEM, NoSkb, {}, FALSE)
  ELSE IF ~e.hdr
  THEN HandlerResult(-ENOMEM, nlmsg_free(nlmsg_new), {}, FALSE)
  ELSE LET skb == genlmsg_put(nlmsg_new, 0, 0, family, GENLTEST_CMD_ECHO)
       IN IF ~e.attr
          THEN HandlerResult(-EMSGSIZE, nlmsg_free(genlmsg_cancel(skb)),
                             {}, FALSE)
          ELSE genlmsg_multicast(
                 genlmsg_end(nla_put_string(skb, GENLTEST_A_MSG, buf)),
                 subs, room, e.send)

\* ping_store(): the bytes consumed, and what echo_ping did
ping_store_max(cnt) == IF cnt > MSG_MAX_LEN THEN MSG_MAX_LEN ELSE cnt

\* ping_store handing echo_ping's error back to the writer
ping_store_report(buf, cnt, family, subs, room, e) ==
  LET ping == echo_ping(buf, ping_store_max(cnt), family, subs, room, e)
  IN [consumed |-> IF ping.ret < 0 THEN ping.ret ELSE ping_store_max(cnt),
      ping |-> ping]

ping_store(buf, cnt, family, subs, room, e) ==
  [consumed |-> ping_store_max(cnt),
   ping |-> echo_ping(buf, ping_store_max(cnt), family, subs, room, e)]

\* a policy that lets any MSG payload through
echo_pol_lax(attrs) == Len(attrs) >= 0

\* echo_pol: MSG is NLA_NUL_STRING
echo_pol(attrs) ==
  LET tb == nla_parse(attrs, GENLTEST_A_MSG)
  IN tb.present => HasNul(tb.data)

\* genl_ops / genl_fam: how the family's table routes an inbound message
\* to echo_doit.  The result also says whether the handler ran.
Dropped(err) ==
  [ran |-> FALSE, res |-> HandlerResult(err, NoSkb, {}, FALSE)]

\* genl_fam.maxattr: with the strict validation an op without validate
\* flags gets, an attribute id above it is rejected
WithinMaxattr(attrs) ==
  \A i \in 1..Len(attrs) : attrs[i].id \in 1..GENLTEST_A_MAX

\* genl_ops: the commands the family has a handler for
KnownCmd(cmd) == cmd \in {GENLTEST_CMD_ECHO}

genl_rcv_msg(req, registered, family, bound, e) ==
  IF ~registered \/ req.family # family
  THEN Dropped(-ENOENT)
  ELSE IF req.type # "genl"
  THEN Dropped(-EINVAL)
  ELSE IF ~KnownCmd(req.cmd)
  THEN Dropped(-EOPNOTSUPP)
  ELSE IF ~WithinMaxattr(req.attrs) \/ ~echo_pol(req.attrs)
  THEN Dropped(-EINVAL)
  ELSE [ran |-> TRUE,
        res |-> echo_doit([snd_portid |-> req.portid, snd_seq |-> req.seq,
                           attrs |-> req.attrs], family, bound, e)]

\* ------------------------------------------------------------------------
\* The client (us/genltest.c)
\* ------------------------------------------------------------------------
Sessions == {"A", "B"}

\* the netlink port a socket is bound to
PortOf == [A |-> 1, B |-> 2]
Ports == {PortOf["A"], PortOf["B"]}

\* struct nl_msg as send_echo_msg uses it
NoNlMsg ==
  [allocd |-> FALSE, live |-> FALSE, hdr |-> FALSE, family |-> 0, cmd |-> 0,
   attrs |-> <<>>, frees |-> 0]

nlmsg_alloc == [NoNlMsg EXCEPT !.allocd = TRUE, !.live = TRUE]

u_genlmsg_put(msg, family, cmd) ==
  [msg EXCEPT !.hdr = TRUE, !.family = family, !.cmd = cmd]

u_nla_put_string(msg, id, str) ==
  [msg EXCEPT !.attrs = Append(@, Attr(id, Take(str, strlen(str) + 1)))]

u_nlmsg_free(msg) == [msg EXCEPT !.live = FALSE, !.frees = @ + 1]

\* nl_send_auto(): the number of bytes sent, or a negative error
nl_send_auto(msg, ok) ==
  IF ok THEN 20 + 4 + BufLen(msg.attrs[1].data) ELSE -NLE_NOMEM

\* send_echo_msg(): its return value, what became of its buffer, and
\* whether the request went out
SendResult(ret, msg, sent) == [ret |-> ret, msg |-> msg, sent |-> sent]

\* e.alloc nlmsg_alloc() succeeds, e.hdr genlmsg_put() succeeds,
\* e.attr nla_put_string() succeeds, e.send nl_send_auto() succeeds
send_echo_msg(fam, e) ==
  IF ~e.alloc
  THEN SendResult(-ENOMEM, NoNlMsg, FALSE)
  ELSE IF ~e.hdr
  THEN SendResult(-EMSGSIZE, nlmsg_alloc, FALSE)
  ELSE LET msg == u_genlmsg_put(nlmsg_alloc, fam, GENLTEST_CMD_ECHO)
       IN IF ~e.attr
          THEN SendResult(-(-NLE_NOMEM), msg, FALSE)
          ELSE LET full == u_nla_put_string(msg, GENLTEST_A_MSG,
                                            AppendByte(HelloUser, 0))
                   err == nl_send_auto(full, e.send)
               IN SendResult(IF err >= 0 THEN 0 ELSE err,
                             u_nlmsg_free(full), e.send)

\* echo_reply_handler(): the verdict and what it prints.  parsed says
\* whether nla_parse() accepted the attribute stream.
NL_OK == 0
NL_SKIP == 1

\* echo_reply_handler printing a message that has no MSG as an empty one
echo_reply_handler_blind(msg, parsed) ==
  IF ~parsed
  THEN [verdict |-> NL_SKIP, printed |-> <<>>]
  ELSE IF ~nla_parse(msg.attrs, GENLTEST_A_MSG).present
  THEN [verdict |-> NL_OK, printed |-> << <<>> >>]
  ELSE [verdict |-> NL_OK,
        printed |-> << CStr(nla_parse(msg.attrs, GENLTEST_A_MSG).data) >>]

echo_reply_handler(msg, parsed) ==
  IF ~parsed
  THEN [verdict |-> NL_SKIP, printed |-> <<>>]
  ELSE IF ~nla_parse(msg.attrs, GENLTEST_A_MSG).present
  THEN [verdict |-> NL_SKIP, printed |-> <<>>]
  ELSE [verdict |-> NL_OK,
        printed |-> << CStr(nla_parse(msg.attrs, GENLTEST_A_MSG).data) >>]

\* a payload the client can walk: every attribute of the closed schema
\* that is present is NUL-terminated
WellFormed(msg) ==
  \A i \in 1..Len(msg.attrs) : HasNul(msg.attrs[i].data)

\* struct nl_sock
NoSock ==
  [allocd |-> FALSE, fd |-> FALSE, seq_next |-> 0, seq_expect |-> 0,
   seqcheck |-> TRUE, cb |-> FALSE, groups |-> {}, closes |-> 0,
   frees |-> 0]

\* nl_socket_alloc() that succeeded; libnl seeds the sequence counter
nl_socket_alloc(seq) ==
  [NoSock EXCEPT !.allocd = TRUE, !.seq_next = seq, !.seq_expect = seq]

\* disconn(): nl_close() and nl_socket_free()
disconn(sk) ==
  [sk EXCEPT !.fd = FALSE, !.closes = @ + 1, !.frees = @ + 1]

\* nl_recvmsgs_default() on one datagram: what the socket's callback
\* prints.  A socket with sequence checking drops a message whose
\* sequence number is not the expected one; NLMSG_ERROR never reaches
\* the NL_CB_VALID callback.
recvmsgs(sk, msg) ==
  IF sk.seqcheck /\ msg.seq # sk.seq_expect
  THEN <<>>
  ELSE IF msg.type # "genl" \/ ~sk.cb
  THEN <<>>
  ELSE echo_reply_handler(msg, WellFormed(msg)).printed

\* the callback's verdict on one datagram: none when libnl does not call
\* it (sequence mismatch, NLMSG_ERROR, no callback installed)
recv_verdict(sk, msg) ==
  IF sk.seqcheck /\ msg.seq # sk.seq_expect
  THEN <<>>
  ELSE IF msg.type # "genl" \/ ~sk.cb
  THEN <<>>
  ELSE << echo_reply_handler(msg, WellFormed(msg)).verdict >>

\* the callback's verdicts on a session from its last NL_SKIP on, at most
\* two of them
SinceSkip(log, verdicts) ==
  IF verdicts = <<>> THEN log
  ELSE IF verdicts[1] = NL_SKIP THEN << NL_SKIP >>
  ELSE IF Len(log) = 1 THEN Append(log, verdicts[1])
  ELSE log

\* the last line on standard output after some more were printed
LastLine(old, printed) == IF printed = <<>> THEN old ELSE printed

\* ------------------------------------------------------------------------
\* State
\* ------------------------------------------------------------------------
VARIABLES
  kpc,            \* where the module is in init_genltest / exit_genltest
  kobjRefs,       \* references held on the "genltest" kobject
  sysfsFile,      \* the sysfs "ping" file exists
  famRegistered,  \* the family is registered with Generic Netlink
  famId,          \* the id the registration gave genl_fam (0: none)
  initRet,        \* what the last init_genltest returned (1: not called)
  klast,          \* the last run of echo_doit / ping_store
  inbox,          \* per port, the messages queued on its socket
  pc,             \* where the client's main is
  ret,            \* main's ret
  exitStatus,     \* the process's exit status (-1: has not returned)
  ucsk, mcsk,     \* main's two socket pointers
  fam, mcgrp,     \* main's resolved family id and group id
  sock,           \* the client's two sockets
  surfaced,       \* per session, the last line echo_reply_handler printed
  ulast,          \* the run of send_echo_msg
  cbLog,          \* per session, the callback's verdicts since its last skip
  failedStep      \* the setup step of main that failed ("none": none)

kvars == << kpc, kobjRefs, sysfsFile, famRegistered, famId, initRet >>
uvars == << pc, ret, exitStatus, ucsk, mcsk, fam, mcgrp, sock, surfaced,
            ulast, cbLog, failedStep >>
vars == << kpc, kobjRefs, sysfsFile, famRegistered, famId, initRet,
           klast, inbox, pc, ret, exitStatus, ucsk, mcsk,
           fam, mcgrp, sock, surfaced, ulast, cbLog, failedStep >>

\* what the environment can do to one handler run: everything works, or
\* exactly one step fails
AllOk == [alloc |-> TRUE, hdr |-> TRUE, attr |-> TRUE, send |-> TRUE]

Envs ==
  { AllOk,
    [AllOk EXCEPT !.alloc = FALSE], [AllOk EXCEPT !.hdr = FALSE],
    [AllOk EXCEPT !.attr = FALSE], [AllOk EXCEPT !.send = FALSE] }

\* no request: what klast.req holds when the run was not a dispatch
NoReq == GenlMsg(0, 0, 0, 0, <<>>)

NoKLast ==
  [fn |-> "none", ran |-> FALSE, portid |-> 0, seq |-> 0, buf |-> <<>>,
   cnt |-> 0,
   consumed |-> 0, subs |-> {}, sendOk |-> TRUE, env |-> AllOk,
   req |-> NoReq,
   res |-> HandlerResult(0, NoSkb, {}, FALSE)]

NoULast ==
  [called |-> FALSE, res |-> SendResult(0, NoNlMsg, FALSE), seq |-> 0,
   kran |-> FALSE, kret |-> 0]

Init ==
  /\ kpc = "unloaded"
  /\ kobjRefs = 0
  /\ sysfsFile = FALSE
  /\ famRegistered = FALSE
  /\ famId = 0
  /\ initRet = 1
  /\ klast = NoKLast
  /\ inbox = [p \in Ports |-> <<>>]
  /\ pc = "connA"
  /\ ret = 1
  /\ exitStatus = -1
  /\ ucsk = "uninit"
  /\ mcsk = "uninit"
  /\ fam = 0
  /\ mcgrp = 0
  /\ sock = [s \in Sessions |-> NoSock]
  /\ surfaced = [s \in Sessions |-> <<>>]
  /\ ulast = NoULast
  /\ cbLog = [s \in Sessions |-> <<>>]
  /\ failedStep = "none"

\* ------------------------------------------------------------------------
\* The transport as the two programs see it
\* ------------------------------------------------------------------------
\* the id of the family's only multicast group
GroupOf(family) == family

\* ports with an open socket
Bound == { PortOf[s] : s \in { t \in Sessions : sock[t].fd } }

\* ports whose receive queue takes one more notification
Room == { p \in Ports : Len(inbox[p]) < MaxQueue }

\* ports that are members of the family's group
Subscribers ==
  IF famRegistered
  THEN { PortOf[s] : s \in { t \in Sessions :
                               sock[t].fd /\ GroupOf(famId) \in sock[t].groups } }
  ELSE {}

Deliver(box, to, msg) ==
  [p \in Ports |-> IF p \in to THEN Append(box[p], msg) ELSE box[p]]

\* netlink_rcv_skb() on a request: the family's dispatch, then the
\* NLMSG_ERROR the kernel queues for the sender when the request asked for
\* an ack or the dispatch returned an error
KernelRcv(req, ack, e) ==
  LET d == genl_rcv_msg(req, famRegistered, famId, Bound, e)
      replied == IF d.res.to # {}
                 THEN Deliver(inbox, d.res.to, WireOf(d.res.skb))
                 ELSE inbox
  IN [d |-> d,
      box |-> IF ack \/ d.res.ret # 0
              THEN Deliver(replied, {req.portid} \cap Bound,
                           ErrMsg(KernelPort, req.seq, d.res.ret))
              ELSE replied]

\* ------------------------------------------------------------------------
\* The module's life cycle: init_genltest and exit_genltest
\* ------------------------------------------------------------------------
\* the id Generic Netlink gives the family when it is registered
FamilyId == 16

\* kobject_create_and_add(); on failure init returns -ENOMEM.  A module
\* whose family is still registered from a refused unregister is not
\* loaded again.
InitCreateKobj ==
  /\ kpc = "unloaded"
  /\ ~famRegistered
  /\ \E ok \in BOOLEAN :
       IF ok
       THEN /\ kobjRefs' = kobjRefs + 1
            /\ kpc' = "init_sysfs"
            /\ UNCHANGED initRet
       ELSE /\ initRet' = -ENOMEM
            /\ UNCHANGED << kobjRefs, kpc >>
  /\ UNCHANGED << sysfsFile, famRegistered, famId, klast,
                  inbox, uvars >>

\* sysfs_create_file(); on failure kobject_put() and return
InitSysfsFile ==
  /\ kpc = "init_sysfs"
  /\ \E r \in {0, -EEXIST} :
       IF r # 0
       THEN /\ kobjRefs' = kobjRefs - 1
            /\ initRet' = r
            /\ kpc' = "unloaded"
            /\ UNCHANGED sysfsFile
       ELSE /\ sysfsFile' = TRUE
            /\ kpc' = "init_register"
            /\ UNCHANGED << kobjRefs, initRet >>
  /\ UNCHANGED << famRegistered, famId, klast, inbox, uvars >>

\* InitRegister without the sysfs_remove_file() of its failure branch
InitRegister_keepFile ==
  /\ kpc = "init_register"
  /\ \E r \in {0, -ENOMEM} :
       /\ initRet' = r
       /\ IF r # 0
          THEN /\ kobjRefs' = kobjRefs - 1
               /\ kpc' = "unloaded"
               /\ UNCHANGED << sysfsFile, famRegistered, famId >>
          ELSE /\ famRegistered' = TRUE
               /\ famId' = FamilyId
               /\ kpc' = "loaded"
               /\ UNCHANGED << sysfsFile, kobjRefs >>
  /\ UNCHANGED << klast, inbox, uvars >>

\* genl_register_family(); on failure sysfs_remove_file(), kobject_put();
\* init returns ret either way
InitRegister ==
  /\ kpc = "init_register"
  /\ \E r \in {0, -ENOMEM} :
       /\ initRet' = r
       /\ IF r # 0
          THEN /\ sysfsFile' = FALSE
               /\ kobjRefs' = kobjRefs - 1
               /\ kpc' = "unloaded"
               /\ UNCHANGED << famRegistered, famId >>
          ELSE /\ famRegistered' = TRUE
               /\ famId' = FamilyId
               /\ kpc' = "loaded"
               /\ UNCHANGED << sysfsFile, kobjRefs >>
  /\ UNCHANGED << klast, inbox, uvars >>

\* exit_genltest: genl_unregister_family(), whose failure is only logged
ExitUnregister ==
  /\ kpc = "loaded"
  /\ \E refused \in BOOLEAN :
       /\ famRegistered' = refused
       /\ famId' = IF refused THEN famId ELSE 0
  /\ kpc' = "exit_remove"
  /\ UNCHANGED << kobjRefs, sysfsFile, initRet, klast, inbox,
                  uvars >>

\* exit_genltest: sysfs_remove_file()
ExitRemoveFile ==
  /\ kpc = "exit_remove"
  /\ sysfsFile' = FALSE
  /\ kpc' = "exit_put"
  /\ UNCHANGED << kobjRefs, famRegistered, famId, initRet, klast,
                  inbox, uvars >>

\* exit_genltest: kobject_put()
ExitPutKobj ==
  /\ kpc = "exit_put"
  /\ kobjRefs' = kobjRefs - 1
  /\ kpc' = "unloaded"
  /\ UNCHANGED << sysfsFile, famRegistered, famId, initRet, klast,
                  inbox, uvars >>

\* ------------------------------------------------------------------------
\* Writes to the sysfs file
\* ------------------------------------------------------------------------
\* n bytes 'a'
Fill(n) == << Run(97, n) >>

\* the buffers written: "hello", one with a NUL inside, and one above the
\* cap
WriteInputs ==
  { Bytes(<< 104, 101, 108, 108, 111 >>), Bytes(<< 104, 105, 0, 104, 111 >>),
    Fill(MaxWrite) }

\* sysfs hands ping_store the bytes written followed by a NUL
PingStore ==
  /\ sysfsFile
  /\ \E data \in WriteInputs, e \in Envs :
       \E r \in {ping_store(AppendByte(data, 0), BufLen(data), famId,
                            Subscribers, Room, e)} :
          /\ klast' = [fn |-> "ping_store", ran |-> TRUE, portid |-> 0,
                       seq |-> 0, buf |-> data, cnt |-> BufLen(data),
                       consumed |-> r.consumed, subs |-> Subscribers,
                       sendOk |-> e.send, env |-> e, req |-> NoReq,
                       res |-> r.ping]
          /\ inbox' = IF r.ping.to # {}
                      THEN Deliver(inbox, r.ping.to, WireOf(r.ping.skb))
                      ELSE inbox
  /\ UNCHANGED << kvars, uvars >>

\* ------------------------------------------------------------------------
\* Requests from another netlink socket
\* ------------------------------------------------------------------------
\* the port of a second program's open socket; what it receives is not
\* followed
PeerPort == 3
PeerSeq == 1

ShortMsg(portid, seq, family) ==
  [GenlMsg(portid, seq, family, 0, <<>>) EXCEPT !.type = "short"]

\* what the peer sends to the family: ECHO with a MSG, ECHO with no
\* attribute, command 0, a command above GENLTEST_CMD_MAX, a MSG with no
\* terminating NUL, an attribute above GENLTEST_A_MAX, another family's
\* id, and a message too short to hold a genl header
PeerRequests ==
  LET hi == Attr(GENLTEST_A_MSG, Bytes(<< 104, 105, 0 >>))
      M(cmd, attrs) == GenlMsg(PeerPort, PeerSeq, FamilyId, cmd, attrs)
  IN { M(GENLTEST_CMD_ECHO, << hi >>),
       M(GENLTEST_CMD_ECHO, <<>>),
       M(0, << hi >>),
       M(GENLTEST_CMD_MAX + 1, << hi >>),
       M(GENLTEST_CMD_ECHO,
         << Attr(GENLTEST_A_MSG, Bytes(<< 104, 105 >>)) >>),
       M(GENLTEST_CMD_ECHO,
         << hi, Attr(GENLTEST_A_MAX + 1, Bytes(<< 104, 105, 0 >>)) >>),
       GenlMsg(PeerPort, PeerSeq, FamilyId + 1, GENLTEST_CMD_ECHO, << hi >>),
       ShortMsg(PeerPort, PeerSeq, FamilyId) }

\* the peer's request reaches the kernel: the family's dispatch and, when
\* it accepts the request, echo_doit
PeerRequest ==
  /\ \E req \in PeerRequests, e \in Envs :
       \E d \in {genl_rcv_msg(req, famRegistered, famId,
                              Bound \cup {PeerPort}, e)} :
         /\ d.ran \/ e = AllOk
         /\ klast' = [fn |-> IF d.ran THEN "echo_doit" ELSE "dropped",
                      ran |-> d.ran, portid |-> req.portid,
                      seq |-> req.seq, buf |-> <<>>, cnt |-> 0,
                      consumed |-> 0, subs |-> {}, sendOk |-> e.send,
                      env |-> e, req |-> req, res |-> d.res]
  /\ UNCHANGED << kvars, inbox, uvars >>

\* ------------------------------------------------------------------------
\* The client's main, one step per statement
\* ------------------------------------------------------------------------
\* the values libnl may seed a socket's sequence counter with
InitialSeqs == {7}

\* conn(): *sk = nl_socket_alloc(); the test "!sk" looks at the address
\* of the pointer, which is never null, so genl_connect(*sk) is always
\* called.  With no socket it reads through a null pointer and traps.
conn(name, allocOk, r, seq) ==
  IF ~allocOk
  THEN [ptr |-> "null", sk |-> NoSock, ret |-> 0, trap |-> TRUE]
  ELSE [ptr |-> name,
        sk |-> [nl_socket_alloc(seq) EXCEPT !.fd = (r = 0)],
        ret |-> r, trap |-> FALSE]

\* the process dies on a signal: the system closes its descriptors
Trapped == [s \in Sessions |-> [sock[s] EXCEPT !.fd = FALSE]]

ConnA ==
  /\ pc = "connA"
  /\ \E allocOk \in BOOLEAN, r \in {0, -NLE_NOMEM}, seq \in InitialSeqs :
       LET c == conn("A", allocOk, r, seq)
       IN /\ ucsk' = c.ptr
          /\ IF c.trap
             THEN /\ pc' = "crashed"
                  /\ sock' = Trapped
                  /\ UNCHANGED << ret, failedStep >>
             ELSE /\ sock' = [sock EXCEPT !["A"] = c.sk]
                  /\ ret' = c.ret
                  /\ pc' = IF c.ret # 0 THEN "out" ELSE "connB"
                  /\ failedStep' = IF c.ret # 0 THEN "connA" ELSE failedStep
  /\ UNCHANGED << kvars, klast, inbox, exitStatus, mcsk,
                  fam, mcgrp, surfaced, cbLog, ulast >>

ConnB ==
  /\ pc = "connB"
  /\ \E allocOk \in BOOLEAN, r \in {0, -NLE_NOMEM}, seq \in InitialSeqs :
       LET c == conn("B", allocOk, r, seq)
       IN /\ mcsk' = c.ptr
          /\ IF c.trap
             THEN /\ pc' = "crashed"
                  /\ sock' = Trapped
                  /\ UNCHANGED << ret, failedStep >>
             ELSE /\ sock' = [sock EXCEPT !["B"] = c.sk]
                  /\ ret' = c.ret
                  /\ pc' = IF c.ret # 0 THEN "out" ELSE "resolve"
                  /\ failedStep' = IF c.ret # 0 THEN "connB" ELSE failedStep
  /\ UNCHANGED << kvars, klast, inbox, exitStatus, ucsk,
                  fam, mcgrp, surfaced, cbLog, ulast >>

\* int fam = genl_ctrl_resolve(ucsk, "genltest"); ret is not assigned
ResolveFam ==
  /\ pc = "resolve"
  /\ \E ok \in BOOLEAN :
       LET f == IF ~famRegistered THEN -NLE_OBJ_NOTFOUND
                ELSE IF ok THEN famId ELSE -NLE_NOMEM
       IN /\ fam' = f
          /\ pc' = IF f < 0 THEN "out" ELSE "seqcheck"
          /\ failedStep' = IF f < 0 THEN "resolve" ELSE failedStep
  /\ UNCHANGED << kvars, klast, inbox, ret, exitStatus,
                  ucsk, mcsk, mcgrp, sock, surfaced, cbLog, ulast >>

\* DisableSeqCheck applied to the unicast socket
DisableSeqCheck_onA ==
  /\ pc = "seqcheck"
  /\ sock' = [sock EXCEPT ![ucsk].seqcheck = FALSE]
  /\ pc' = "resolve_grp"
  /\ UNCHANGED << kvars, klast, inbox, ret, exitStatus,
                  ucsk, mcsk, fam, mcgrp, surfaced, cbLog, ulast, failedStep >>

\* nl_socket_disable_seq_check(mcsk)
DisableSeqCheck ==
  /\ pc = "seqcheck"
  /\ sock' = [sock EXCEPT ![mcsk].seqcheck = FALSE]
  /\ pc' = "resolve_grp"
  /\ UNCHANGED << kvars, klast, inbox, ret, exitStatus,
                  ucsk, mcsk, fam, mcgrp, surfaced, cbLog, ulast, failedStep >>

\* int mcgrp = genl_ctrl_resolve_grp(mcsk, "genltest", "mcgrp"); ret is not
\* assigned
ResolveGrp ==
  /\ pc = "resolve_grp"
  /\ \E ok \in BOOLEAN :
       LET g == IF ~famRegistered THEN -NLE_OBJ_NOTFOUND
                ELSE IF ok THEN GroupOf(famId) ELSE -NLE_NOMEM
       IN /\ mcgrp' = g
          /\ pc' = IF g < 0 THEN "out" ELSE "join"
          /\ failedStep' = IF g < 0 THEN "resolve_grp" ELSE failedStep
  /\ UNCHANGED << kvars, klast, inbox, ret, exitStatus,
                  ucsk, mcsk, fam, sock, surfaced, cbLog, ulast >>

\* ret = nl_socket_add_membership(mcsk, mcgrp) < 0
Join ==
  /\ pc = "join"
  /\ \E r \in {0, -NLE_NOMEM} :
       /\ ret' = IF r < 0 THEN 1 ELSE 0
       /\ IF r < 0
          THEN /\ pc' = "out"
               /\ failedStep' = "join"
               /\ UNCHANGED sock
          ELSE /\ pc' = "set_cbA"
               /\ sock' = [sock EXCEPT ![mcsk].groups = @ \cup {mcgrp}]
               /\ UNCHANGED failedStep
  /\ UNCHANGED << kvars, klast, inbox, exitStatus, ucsk,
                  mcsk, fam, mcgrp, surfaced, cbLog, ulast >>

\* set_cb(): nl_socket_modify_cb(sk, NL_CB_VALID, NL_CB_CUSTOM, ...)
set_cb(sk, r) == IF r = 0 THEN [sk EXCEPT !.cb = TRUE] ELSE sk

SetCbA ==
  /\ pc = "set_cbA"
  /\ \E r \in {0, -NLE_NOMEM} :
       /\ ret' = r
       /\ sock' = [sock EXCEPT ![ucsk] = set_cb(@, r)]
       /\ pc' = IF r # 0 THEN "out" ELSE "set_cbB"
       /\ failedStep' = IF r # 0 THEN "set_cbA" ELSE failedStep
  /\ UNCHANGED << kvars, klast, inbox, exitStatus, ucsk,
                  mcsk, fam, mcgrp, surfaced, cbLog, ulast >>

SetCbB ==
  /\ pc = "set_cbB"
  /\ \E r \in {0, -NLE_NOMEM} :
       /\ ret' = r
       /\ sock' = [sock EXCEPT ![mcsk] = set_cb(@, r)]
       /\ pc' = IF r # 0 THEN "out" ELSE "send"
       /\ failedStep' = IF r # 0 THEN "set_cbB" ELSE failedStep
  /\ UNCHANGED << kvars, klast, inbox, exitStatus, ucsk,
                  mcsk, fam, mcgrp, surfaced, cbLog, ulast >>

\* ret = send_echo_msg(ucsk, fam); a failure is printed and main goes on.
\* A request that leaves the socket is handled by the kernel before
\* sendmsg() returns.
Send ==
  /\ pc = "send"
  /\ \E e \in Envs, ke \in Envs :
       \E r \in {send_echo_msg(fam, e)}, seq \in {sock[ucsk].seq_next} :
         \E k \in {KernelRcv(GenlMsg(PortOf[ucsk], seq, r.msg.family,
                                     r.msg.cmd, r.msg.attrs), TRUE, ke)} :
           /\ ret' = r.ret
           /\ failedStep' = IF r.ret # 0 THEN "send" ELSE failedStep
           /\ sock' = IF e.alloc /\ e.hdr /\ e.attr
                      THEN [sock EXCEPT ![ucsk].seq_next = @ + 1]
                      ELSE sock
           /\ IF r.sent
              THEN /\ inbox' = k.box
                   /\ klast' = IF k.d.ran
                               THEN [fn |-> "echo_doit", ran |-> TRUE,
                                     portid |-> PortOf[ucsk], seq |-> seq,
                                     buf |-> <<>>, cnt |-> 0,
                                     consumed |-> 0, subs |-> {},
                                     sendOk |-> ke.send, env |-> ke,
                                     req |-> GenlMsg(PortOf[ucsk], seq,
                                                     r.msg.family, r.msg.cmd,
                                                     r.msg.attrs),
                                     res |-> k.d.res]
                               ELSE klast
                   /\ ulast' = [called |-> TRUE, res |-> r, seq |-> seq,
                                kran |-> k.d.ran, kret |-> k.d.res.ret]
              ELSE /\ ke = AllOk
                   /\ ulast' = [called |-> TRUE, res |-> r, seq |-> seq,
                                kran |-> FALSE, kret |-> 0]
                   /\ UNCHANGED << inbox, klast >>
  /\ pc' = "recvA"
  /\ UNCHANGED << kvars, exitStatus, ucsk, mcsk, fam, mcgrp, surfaced, cbLog >>

\* nl_recvmsgs_default(ucsk): blocks until a datagram is queued
RecvA ==
  /\ pc = "recvA"
  /\ inbox[PortOf[ucsk]] # <<>>
  /\ surfaced' = [surfaced EXCEPT
                    ![ucsk] = LastLine(@, recvmsgs(sock[ucsk],
                                                   Head(inbox[PortOf[ucsk]])))]
  /\ cbLog' = [cbLog EXCEPT
                 ![ucsk] = SinceSkip(@, recv_verdict(sock[ucsk],
                                                   Head(inbox[PortOf[ucsk]])))]
  /\ inbox' = [inbox EXCEPT ![PortOf[ucsk]] = Tail(@)]
  /\ pc' = "loop"
  /\ UNCHANGED << kvars, klast, ret, exitStatus, ucsk,
                  mcsk, fam, mcgrp, sock, ulast, failedStep >>

\* RecvB as a single receive after which main falls through to out
RecvB_once ==
  /\ pc = "loop"
  /\ inbox[PortOf[mcsk]] # <<>>
  /\ surfaced' = [surfaced EXCEPT
                    ![mcsk] = LastLine(@, recvmsgs(sock[mcsk],
                                                   Head(inbox[PortOf[mcsk]])))]
  /\ cbLog' = [cbLog EXCEPT
                 ![mcsk] = SinceSkip(@, recv_verdict(sock[mcsk],
                                                   Head(inbox[PortOf[mcsk]])))]
  /\ inbox' = [inbox EXCEPT ![PortOf[mcsk]] = Tail(@)]
  /\ pc' = "out"
  /\ ret' = 0
  /\ UNCHANGED << kvars, klast, exitStatus, ucsk,
                  mcsk, fam, mcgrp, sock, ulast, failedStep >>

\* while (1) nl_recvmsgs_default(mcsk);
RecvB ==
  /\ pc = "loop"
  /\ inbox[PortOf[mcsk]] # <<>>
  /\ surfaced' = [surfaced EXCEPT
                    ![mcsk] = LastLine(@, recvmsgs(sock[mcsk],
                                                   Head(inbox[PortOf[mcsk]])))]
  /\ cbLog' = [cbLog EXCEPT
                 ![mcsk] = SinceSkip(@, recv_verdict(sock[mcsk],
                                                   Head(inbox[PortOf[mcsk]])))]
  /\ inbox' = [inbox EXCEPT ![PortOf[mcsk]] = Tail(@)]
  /\ pc' = "loop"
  /\ UNCHANGED << kvars, klast, ret, exitStatus, ucsk,
                  mcsk, fam, mcgrp, sock, ulast, failedStep >>

\* out: disconn(ucsk)
DisconnA ==
  /\ pc = "out"
  /\ sock' = [sock EXCEPT ![ucsk] = disconn(@)]
  /\ pc' = "out2"
  /\ UNCHANGED << kvars, klast, inbox, ret, exitStatus,
                  ucsk, mcsk, fam, mcgrp, surfaced, cbLog, ulast, failedStep >>

\* disconn(mcsk); return ret.  When conn(&mcsk) was never called mcsk holds
\* whatever was on the stack: the call may trap, may hit the socket ucsk
\* points to a second time, or may do nothing that shows.
DisconnB ==
  /\ pc = "out2"
  /\ IF mcsk \in Sessions
     THEN /\ sock' = [sock EXCEPT ![mcsk] = disconn(@)]
          /\ pc' = "done"
          /\ exitStatus' = ret % 256
     ELSE \E outcome \in {"trap", "alias", "quiet"} :
            /\ sock' = IF outcome = "alias"
                       THEN [sock EXCEPT ![ucsk] = disconn(@)]
                       ELSE IF outcome = "trap" THEN Trapped ELSE sock
            /\ pc' = IF outcome = "trap" THEN "crashed" ELSE "done"
            /\ exitStatus' = IF outcome = "trap" THEN exitStatus
                             ELSE ret % 256
  /\ UNCHANGED << kvars, klast, inbox, ret, ucsk, mcsk,
                  fam, mcgrp, surfaced, cbLog, ulast, failedStep >>

\* ------------------------------------------------------------------------
\* Datagrams from other senders
\* ------------------------------------------------------------------------
\* genl messages of another sender: one with no attribute at all, one
\* whose attribute stream nla_parse() rejects, and one the callback can
\* decode ("hello"); they carry the sequence number the socket expects, so
\* that libnl hands them to the callback
ForeignMsgs(sk) ==
  { GenlMsg(PeerPort, sk.seq_expect, FamilyId, GENLTEST_CMD_ECHO, <<>>),
    GenlMsg(PeerPort, sk.seq_expect, FamilyId, GENLTEST_CMD_ECHO,
            << Attr(GENLTEST_A_MSG, Bytes(<< 104, 105 >>)) >>),
    GenlMsg(PeerPort, sk.seq_expect, FamilyId, GENLTEST_CMD_ECHO,
            << Attr(GENLTEST_A_MSG,
                    Bytes(<< 104, 101, 108, 108, 111, 0 >>)) >>) }

\* such a datagram is queued on an open socket of the client
Foreign ==
  /\ \E s \in Sessions :
       /\ sock[s].fd
       /\ PortOf[s] \in Room
       /\ \E m \in ForeignMsgs(sock[s]) :
            inbox' = Deliver(inbox, {PortOf[s]}, m)
  /\ UNCHANGED << kvars, klast, uvars >>

\* ------------------------------------------------------------------------
\* Specifications
\* ------------------------------------------------------------------------
\* main up to the notification loop, and its teardown
MainStep ==
  \/ ConnA \/ ConnB \/ ResolveFam \/ DisableSeqCheck \/ ResolveGrp \/ Join
  \/ SetCbA \/ SetCbB \/ Send \/ RecvA \/ DisconnA \/ DisconnB

Next ==
  \/ InitCreateKobj
  \/ InitSysfsFile
  \/ InitRegister
  \/ ExitUnregister
  \/ ExitRemoveFile
  \/ ExitPutKobj
  \/ PingStore
  \/ ConnA
  \/ ConnB
  \/ ResolveFam
  \/ DisableSeqCheck
  \/ ResolveGrp
  \/ Join
  \/ SetCbA
  \/ SetCbB
  \/ Send
  \/ RecvA
  \/ RecvB
  \/ DisconnA
  \/ DisconnB

Spec == Init /\ [][Next]_vars

\* The request and its reply, with nobody writing to the sysfs file (so
\* nothing ever reaches session B).  The client is a running process: a
\* statement it can execute is eventually executed.
ReqNext ==
  \/ InitCreateKobj
  \/ InitSysfsFile
  \/ InitRegister
  \/ ExitUnregister
  \/ ExitRemoveFile
  \/ ExitPutKobj
  \/ ConnA
  \/ ConnB
  \/ ResolveFam
  \/ DisableSeqCheck
  \/ ResolveGrp
  \/ Join
  \/ SetCbA
  \/ SetCbB
  \/ Send
  \/ RecvA
  \/ DisconnA
  \/ DisconnB

LiveSpec == Init /\ [][ReqNext]_vars /\ WF_vars(MainStep)

\* The module and a peer that sends it requests of every shape, while the
\* module is loaded, unloaded and written to; the client is not started.
DispatchNext ==
  \/ InitCreateKobj
  \/ InitSysfsFile
  \/ InitRegister
  \/ ExitUnregister
  \/ ExitRemoveFile
  \/ ExitPutKobj
  \/ PingStore
  \/ PeerRequest

DispatchSpec == Init /\ [][DispatchNext]_vars

\* The client, the module being loaded, and messages of other senders
\* reaching the client's sockets.
CallbackNext ==
  \/ InitCreateKobj
  \/ InitSysfsFile
  \/ InitRegister
  \/ MainStep
  \/ RecvB
  \/ Foreign

CallbackSpec == Init /\ [][CallbackNext]_vars

\* ------------------------------------------------------------------------
\* Properties
\* ------------------------------------------------------------------------
SetupSteps ==
  {"connA", "connB", "resolve", "resolve_grp", "join", "set_cbA", "set_cbB"}

\* C1: when a setup step of main failed (opening a session, resolving the
\* family or the group, joining, installing a callback), main's exit
\* status is not 0.
C1_FailedSetupExitsNonZero ==
  (pc = "done" /\ failedStep \in SetupSteps) => exitStatus # 0

\* C2: whenever send_echo_msg allocated its message buffer, it has released
\* it exactly once when it returns.
C2_SendReleasesBuffer ==
  (ulast.called /\ ulast.res.msg.allocd)
    => (~ulast.res.msg.live /\ ulast.res.msg.frees = 1)

\* C3: a buffer echo_doit or echo_ping allocated is, when the handler
\* returns, either freed exactly once (with no header left in it: none was
\* put, or the one put was cancelled first) or handed to the transport
\* exactly once after genlmsg_end; never both, never twice, never left
\* allocated.
C3_KernelBufferDiscipline ==
  LET skb == klast.res.skb
  IN (klast.fn # "none" /\ skb.allocd)
       => /\ ~skb.live
          /\ skb.frees + skb.sends = 1
          /\ skb.sends = 1 => (skb.hdr /\ skb.ended /\ skb.cancels = 0)
          /\ skb.frees = 1 => (~skb.hdr /\ ~skb.ended /\ skb.cancels <= 1)

C3_Witness ==
  /\ klast.fn = "echo_doit"
  /\ klast.res.skb.cancels = 1
  /\ klast.res.skb.frees = 1

\* C4: when main has returned through its teardown, every session that
\* was opened has been closed and freed exactly once, and nothing else was.
C4_TeardownClosesEachOnce ==
  pc = "done"
    => \A s \in Sessions :
         /\ sock[s].allocd => (sock[s].closes = 1 /\ sock[s].frees = 1)
         /\ ~sock[s].allocd => (sock[s].closes = 0 /\ sock[s].frees = 0)

\* C5: in every state in which the family is registered, the trigger file
\* (the kobject and its sysfs attribute) exists.
C5_RegisteredHasTrigger ==
  famRegistered => (sysfsFile /\ kobjRefs > 0)

\* C6: when init_genltest has returned a failure, no kobject reference and
\* no sysfs file remain and the family is not registered.
C6_InitFailureReleasesAll ==
  (kpc = "unloaded" /\ initRet < 0)
    => (kobjRefs = 0 /\ ~sysfsFile /\ ~famRegistered)

C6_Witness ==
  kpc = "unloaded" /\ initRet = -EEXIST /\ kobjRefs = 0

\* C7: the MSG content echo_ping sends for a write of cnt bytes (none of
\* them NUL) is the first min(cnt, 1024) bytes written.
C7_PingContentTruncated ==
  (klast.fn = "ping_store" /\ klast.res.skb.ended /\ ~HasNul(klast.buf))
    => CStr(klast.res.skb.attrs[1].data)
         = Take(klast.buf, ping_store_max(klast.cnt))

C9_ReplyToRequesterOnly ==
  /\ (klast.fn = "echo_doit" /\ klast.res.skb.sends = 1)
       => /\ klast.res.skb.portid = klast.portid
          /\ klast.res.skb.seq = klast.seq
          /\ klast.res.skb.cmd = GENLTEST_CMD_ECHO
          /\ klast.res.skb.family = FamilyId
          /\ ~klast.res.mcast
          /\ klast.res.to \subseteq {klast.portid}
  /\ \A p \in Ports : \A i \in 1..Len(inbox[p]) :
       (inbox[p][i].type = "genl" /\ inbox[p][i].portid # KernelPort)
         => inbox[p][i].portid = p

C9_Witness ==
  /\ klast.fn = "echo_doit"
  /\ klast.res.ret = 0
  /\ klast.res.to = {PortOf["A"]}
  /\ PortOf["B"] \in Subscribers
  /\ Len(inbox[PortOf["A"]]) > 0
  /\ Head(inbox[PortOf["A"]]).portid = PortOf["A"]
  /\ Head(inbox[PortOf["A"]]).seq = klast.seq

\* C10: when the client's request went out and echo_doit handled it
\* without a failure, the client's callback on session A eventually prints
\* exactly "Hello from Kernel Space, Netlink!".
C10_ReplyReachesCallback ==
  (pc = "recvA" /\ ulast.res.sent /\ ulast.res.ret = 0 /\ ulast.kran
     /\ ulast.kret = 0)
    ~> (surfaced["A"] = << HelloKernel >>)

C10_Witness ==
  /\ pc = "loop"
  /\ ulast.res.sent
  /\ ulast.kran
  /\ ulast.kret = 0
  /\ surfaced["A"] = << HelloKernel >>

\* C11: a request with no MSG attribute reaches echo_doit, which does not
\* fail because of it: what echo_doit returns and the reply it builds and
\* sends are those of the same request carrying a MSG.
C11_EmptyRequestSameReply ==
  (klast.fn = "echo_doit" /\ ~nla_parse(klast.req.attrs, GENLTEST_A_MSG).present)
    => /\ klast.ran
       /\ klast.res
            = echo_doit([snd_portid |-> klast.req.portid,
                         snd_seq |-> klast.req.seq,
                         attrs |-> << Attr(GENLTEST_A_MSG,
                                           AppendByte(HelloUser, 0)) >>],
                        FamilyId, {klast.req.portid}, klast.env)
       /\ klast.env = AllOk
            => /\ klast.res.ret = 0
               /\ klast.res.skb.sends = 1
               /\ klast.res.to = {klast.req.portid}
               /\ klast.res.skb.attrs
                    = << Attr(GENLTEST_A_MSG, AppendByte(HelloKernel, 0)) >>

C11_Witness ==
  /\ klast.fn = "echo_doit"
  /\ klast.req.attrs = <<>>
  /\ klast.res.ret = 0
  /\ klast.res.to = {PeerPort}
  /\ CStr(klast.res.skb.attrs[1].data) = HelloKernel

\* C12: echo_doit runs, and a reply is built and sent, only for a request
\* that is a whole genl message of the family, whose command is ECHO (not
\* 0, not above GENLTEST_CMD_MAX), whose attribute ids are all within
\* 1..GENLTEST_A_MAX and whose MSG, when present, holds a NUL; for every
\* other request no handler runs, no buffer is allocated and nothing is
\* delivered.
C12_HandlerOnlyAfterPolicy ==
  LET req == klast.req
      admissible ==
        /\ req.type = "genl"
        /\ req.family = FamilyId
        /\ req.cmd \in 1..GENLTEST_CMD_MAX
        /\ req.cmd = GENLTEST_CMD_ECHO
        /\ \A i \in 1..Len(req.attrs) :
             /\ req.attrs[i].id \in 1..GENLTEST_A_MAX
             /\ req.attrs[i].id = GENLTEST_A_MSG
                  => \E k \in 1..Len(req.attrs[i].data) :
                       req.attrs[i].data[k].b = 0
  IN klast.fn \in {"echo_doit", "dropped"}
       => /\ klast.ran => admissible
          /\ klast.fn = "echo_doit" <=> klast.ran
          /\ ~admissible
               => /\ ~klast.ran
                  /\ ~klast.res.skb.allocd
                  /\ klast.res.skb.sends = 0
                  /\ klast.res.to = {}
                  /\ klast.res.ret < 0

C12_Witness ==
  /\ klast.fn = "dropped"
  /\ klast.req.cmd = GENLTEST_CMD_ECHO
  /\ klast.req.family = FamilyId
  /\ klast.req.type = "genl"
  /\ Len(klast.req.attrs) = 1
  /\ ~HasNul(klast.req.attrs[1].data)
  /\ klast.res.ret = -EINVAL

\* C13: when a receive on a session hands the callback a message whose
\* attributes do not parse or that has no MSG, the callback skips it:
\* nothing is printed as a decoded message, the session's socket stays as
\* it was (open, callback installed) and main does not leave for its
\* teardown; and when the next message handed to the callback on that
\* session is a decodable one, its MSG is printed.
C13_SkipKeepsSession ==
  [][\A s \in Sessions :
       (inbox[PortOf[s]] # <<>> /\ inbox'[PortOf[s]] = Tail(inbox[PortOf[s]]))
         => LET m == Head(inbox[PortOf[s]])
                handed == /\ m.type = "genl"
                          /\ sock[s].cb
                          /\ sock[s].seqcheck => m.seq = sock[s].seq_expect
                undecodable ==
                  \/ \E i \in 1..Len(m.attrs) : ~HasNul(m.attrs[i].data)
                  \/ \A i \in 1..Len(m.attrs) : m.attrs[i].id # GENLTEST_A_MSG
            IN /\ (handed /\ undecodable)
                    => /\ surfaced'[s] = surfaced[s]
                       /\ cbLog'[s] = << NL_SKIP >>
                       /\ sock' = sock
                       /\ sock'[s].fd /\ sock'[s].cb
                       /\ pc' = "loop"
               /\ (handed /\ ~undecodable /\ cbLog[s] = << NL_SKIP >>)
                    => /\ surfaced'[s]
                            = << CStr(nla_parse(m.attrs, GENLTEST_A_MSG).data) >>
                       /\ cbLog'[s] = << NL_SKIP, NL_OK >>
                       /\ sock'[s].fd /\ sock'[s].cb
    ]_vars

C13_Witness ==
  /\ pc = "loop"
  /\ cbLog["B"] = << NL_SKIP, NL_OK >>
  /\ surfaced["B"] = << Bytes(<< 104, 101, 108, 108, 111 >>) >>
  /\ sock["B"].fd

\* C14: when send_echo_msg has returned non-zero, main does not go on to
\* receive on session A nor into the notification loop, and once it has
\* returned its exit status is 1.
C14_FailedSendStops ==
  (ulast.called /\ ulast.res.ret # 0)
    => /\ pc \notin {"recvA", "loop"}
       /\ pc = "done" => exitStatus = 1

\* C15: main's steps come in one order.  A receive on session B finds
\* sequence checking disabled on B and B a member of the group; the
\* request is sent with the callback installed on both sessions; the
\* receive on session A follows the send and precedes every receive on
\* session B; session A never joins a group and keeps its sequence
\* checking.
C15_LifecycleOrder ==
  [][LET recvOn(s) == /\ inbox[PortOf[s]] # <<>>
                      /\ inbox'[PortOf[s]] = Tail(inbox[PortOf[s]])
     IN /\ recvOn("B")
             => /\ ~sock["B"].seqcheck
                /\ mcgrp \in sock["B"].groups
                /\ pc = "loop"
        /\ (~ulast.called /\ ulast'.called)
             => /\ sock["A"].cb /\ sock["B"].cb
                /\ pc = "send" /\ pc' = "recvA"
        /\ recvOn("A")
             => /\ ulast.called
                /\ pc = "recvA" /\ pc' = "loop"
                /\ surfaced["B"] = <<>>
        /\ (pc # "loop" /\ pc' = "loop") => recvOn("A")
        /\ sock'["A"].groups = {}
        /\ sock'["A"].seqcheck
    ]_vars

C15_Witness ==
  /\ pc = "loop"
  /\ surfaced["A"] = << HelloKernel >>
  /\ surfaced["B"] # <<>>
  /\ ~sock["B"].seqcheck
  /\ sock["A"].seqcheck
  /\ sock["A"].cb /\ sock["B"].cb

\* C16: send_echo_msg returns 0 when the request went out and a negative
\* value on every failure.
C16_SendSignConvention ==
  ulast.called
    => /\ ulast.res.ret <= 0
       /\ ulast.res.ret = 0 <=> ulast.res.sent

\* C17: when nl_socket_alloc() gave no socket, conn returns a failure
\* without calling genl_connect() on it and main goes to its teardown as
\* for a connection failure.
C17_AllocFailureIsConnFailure ==
  (ucsk = "null" \/ mcsk = "null")
    => /\ pc # "crashed"
       /\ failedStep \in {"connA", "connB"}
       /\ ret # 0

\* C18: when opening session A failed, so that conn was never called for
\* session B, the teardown leaves the session B pointer alone: main
\* returns, with session A closed and freed once.
C18_TeardownSkipsUnopened ==
  (ucsk = "A" /\ mcsk = "uninit" /\ pc \in {"done", "crashed"})
    => /\ pc = "done"
       /\ sock["A"].closes = 1
       /\ sock["A"].frees = 1

\* C19: once main is in the notification loop it stays there: no step
\* takes it to the teardown, closes or frees a session, changes ret or
\* sets an exit status.
C19_LoopNeverLeaves ==
  [][pc = "loop"
       => /\ pc' = "loop"
          /\ exitStatus' = -1
          /\ ret' = ret
          /\ \A s \in Sessions :
               /\ sock'[s].fd
               /\ sock'[s].closes = 0
               /\ sock'[s].frees = 0
    ]_vars

C19_Witness ==
  /\ pc = "loop"
  /\ surfaced["B"] = << Bytes(<< 104, 105 >>) >>
  /\ exitStatus = -1
  /\ sock["A"].fd /\ sock["B"].fd

\* C20: a write of cnt bytes runs echo_ping once and ping_store returns
\* min(cnt, MSG_MAX_LEN) whatever echo_ping returned: one buffer at most
\* is allocated, each subscriber's queue grows by one message at most,
\* and an error of echo_ping is not what the writer gets.
C20_PingStoreReturnsCount ==
  [][(/\ klast'.fn = "ping_store"
      /\ UNCHANGED uvars
      /\ \A p \in Ports : Len(inbox'[p]) >= Len(inbox[p]))
       => /\ klast'.consumed
               = (IF klast'.cnt < MSG_MAX_LEN THEN klast'.cnt ELSE MSG_MAX_LEN)
          /\ klast'.consumed >= 0
          /\ klast'.res.skb.frees + klast'.res.skb.sends <= 1
          /\ \A p \in Ports : Len(inbox'[p]) <= Len(inbox[p]) + 1
    ]_vars

C20_Witness ==
  /\ klast.fn = "ping_store"
  /\ klast.res.ret = -ENOMEM
  /\ klast.cnt = MaxWrite
  /\ klast.consumed = MSG_MAX_LEN

====
